---- MODULE Spec2Model ----
(***************************************************************************)
(* Model of src/impression.js (AMP impression tracking).                   *)
(*                                                                         *)
(* One window with its viewer; sessions are the calls of                   *)
(* maybeTrackImpression, numbered in call order.  Every macrotask (a call  *)
(* of the exported API, the settlement of a viewer / network promise, the  *)
(* timer) is one action; the promise reactions that a settlement triggers  *)
(* (the Promise.all join, the timeout race and its catch handler) run as   *)
(* microtasks before the next macrotask and are part of the same action.   *)
(* getTrackImpressionPromise only reads the handle and is an operator.     *)
(* The continuation of the trust queries is an action of its own, because  *)
(* the queries may already be settled when maybeTrackImpression returns    *)
(* and the caller's synchronous code then runs before it.                  *)
(***************************************************************************)
EXTENDS Integers, Sequences, FiniteSets, TLC

VARIABLES
  trackImpressionPromise, \* the module-level handle (impression.js:30)
  sess,                   \* one record per maybeTrackImpression call
  nSessions,              \* number of maybeTrackImpression calls so far
  env,                    \* viewer params, capability, experiment, history API
  hash,                   \* win.location.hash
  visible,                \* viewer.whenFirstVisible() has resolved
  history,                \* win.history: number of entries, URL of the current one
  lastCall                \* last handle-writing API call (observation)

vars == <<trackImpressionPromise, sess, nSessions, env, history, hash, visible, lastCall>>

(***************************************************************************)
(* Bounds.                                                                 *)
(***************************************************************************)
MaxSessions == 1
\* sessions in the specification of overlapping sessions
MaxOverlap == 2

(***************************************************************************)
(* Program constants.                                                      *)
(***************************************************************************)
TIMEOUT_VALUE == 8000

(***************************************************************************)
(* Strings the code inspects are sequences of characters.                  *)
(***************************************************************************)
HttpsPrefix == <<"h", "t", "t", "p", "s", ":", "/", "/">>
ClickHttps  == HttpsPrefix \o <<"a">>
ClickHttp   == <<"h", "t", "t", "p", ":", "/", "/", "a">>
ClickEmbeds == <<"x">> \o HttpsPrefix
ClickFtp    == <<"f", "t", "p", ":", "/", "/", "e">>
ClickValues == {<<>>, ClickHttps, ClickHttp, ClickFtp, ClickEmbeds}

\* JS values that are not strings
JsNull      == "<null>"
JsUndefined == "<undefined>"

ParamX == "http://x"
RespY  == "http://y"
ReplaceUrlParams == {"", ParamX}

\* truthiness of a string-or-undefined-or-null value
Truthy(v) == v # "" /\ v # JsNull /\ v # JsUndefined

\* JS  a || b
OrElse(a, b) == IF Truthy(a) THEN a ELSE b

\* variant: the prefix may occur anywhere in the string (indexOf(...) != -1)
IndexOfFound(s, prefix) ==
  \E k \in 0..Len(s) :
    /\ k + Len(prefix) <= Len(s)
    /\ \A i \in 1..Len(prefix) : s[k + i] = prefix[i]

\* clickUrl.indexOf('https://') != 0  (impression.js:154)
IndexOfIsZero(s, prefix) ==
  /\ Len(s) >= Len(prefix)
  /\ \A i \in 1..Len(prefix) : s[i] = prefix[i]

(***************************************************************************)
(* Values exchanged with the viewer and the ad server.                     *)
(***************************************************************************)
\* what sendMessageAwaitResponse('getReplaceUrl') may settle with
MsgResponses ==
  { [type |-> "undefined", replaceUrl |-> JsUndefined],
    [type |-> "string",    replaceUrl |-> JsUndefined],
    [type |-> "object",    replaceUrl |-> JsUndefined],
    [type |-> "object",    replaceUrl |-> ""],
    [type |-> "object",    replaceUrl |-> RespY] }
MsgReject == [type |-> "reject", replaceUrl |-> JsUndefined]
NoResponse == [type |-> "none", replaceUrl |-> JsUndefined]

\* !response || typeof response != 'object'  (impression.js:128)
InvalidResponse(response) == response.type # "object"

AdLocation   == "https://ad.example/?a=1"
ProxyLoc     == "https://cdn.ampproject.org/c/?b=2"
TrackingUrl  == "https://track.example"
ProxyTrack   == "https://cdn.ampproject.org/t"
FetchResponses ==
  [location : {JsUndefined, AdLocation, ProxyLoc},
   tracking_url : {JsUndefined, TrackingUrl, ProxyTrack}]
FetchFailure == [location |-> "<failure>", tracking_url |-> "<failure>"]

\* url.js isProxyOrigin: the serving (cache) origins
IsProxyOrigin(u) == u \in {ProxyLoc, ProxyTrack}

Envs ==
  [replaceUrl : ReplaceUrlParams,  \* viewer.getParam('replaceUrl')
   capReplaceUrl : BOOLEAN,        \* viewer.hasCapability('replaceUrl')
   click : ClickValues,            \* viewer.getParam('click')
   alp : BOOLEAN,                  \* isExperimentOn(win, 'alp')
   replaceState : BOOLEAN]         \* win.history.replaceState exists

Sessions == 1..MaxSessions

NullHandle == [kind |-> "null", id |-> 0]
DntHandle  == [kind |-> "resolved", id |-> 0]
SessionHandle(s) == [kind |-> "session", id |-> s]

AssertionError == [kind |-> "AssertionError", id |-> 0]

\* a session that has not been started
IdleSession ==
  [tv |-> "none", tr |-> "none", trustDone |-> FALSE,
   promise |-> "none", timer |-> "none", delay |-> 0, race |-> "none", track |-> "none",
   resolvedBy |-> "none",
   rstep |-> "idle", cstep |-> "idle", join |-> "idle",
   paramReads |-> {}, replaceUrlCalls |-> <<>>, msgs |-> <<>>, rresp |-> NoResponse,
   hashCleared |-> FALSE, fetches |-> <<>>, applied |-> <<>>,
   beacons |-> <<>>, replaceStates |-> <<>>, warns |-> {}]

(***************************************************************************)
(* The session promise: timeoutPromise(...).catch(...)                     *)
(***************************************************************************)
\* Timer.timeoutPromise: the race of the timer and the inner promise
TimeoutPromise(race, inner, timer) ==
  IF race # "pending" THEN race
  ELSE IF timer = "fired" THEN "rejected"
  ELSE IF inner = "fulfilled" THEN "fulfilled"
  ELSE "pending"

\* variant: the timeout rejection is not caught
CatchWarnMissing(p) == p

\* .catch(error => { dev().warn('IMPRESSION', error); })
CatchWarn(p) == IF p = "rejected" THEN "fulfilled" ELSE p

\* the reactions that follow a change of the inner promise or of the timer
SettleSession(r, by) ==
  LET race2 == TimeoutPromise(r.race, r.promise, r.timer) IN
  [r EXCEPT !.race = race2,
            !.track = CatchWarn(race2),
            !.resolvedBy = IF r.race = "pending" /\ race2 # "pending" THEN by ELSE @,
            !.warns = IF r.race = "pending" /\ race2 = "rejected"
                      THEN @ \cup {"timeout"} ELSE @]

\* resolveImpression()
ResolveImpression(r, by) ==
  SettleSession([r EXCEPT !.promise = "fulfilled"], by)

\* variant: Promise.race instead of Promise.all, the first step fulfilled resolves
JoinAny(r) ==
  IF r.join # "waiting" THEN r
  ELSE IF r.rstep = "rejected" \/ r.cstep = "rejected"
       THEN [r EXCEPT !.join = "swallowed"]
  ELSE IF r.rstep = "fulfilled" \/ r.cstep = "fulfilled"
       THEN ResolveImpression([r EXCEPT !.join = "resolved"], "join")
  ELSE r

\* Promise.all([replaceUrlPromise, clickUrlPromise]).then(resolve, () => {})
Join(r) ==
  IF r.join # "waiting" THEN r
  ELSE IF r.rstep = "rejected" \/ r.cstep = "rejected"
       THEN [r EXCEPT !.join = "swallowed"]
  ELSE IF r.rstep = "fulfilled" /\ r.cstep = "fulfilled"
       THEN ResolveImpression([r EXCEPT !.join = "resolved"], "join")
  ELSE r

(***************************************************************************)
(* handleReplaceUrl, handleClickUrl: the synchronous part                  *)
(***************************************************************************)
\* variant: the capability is not consulted, the viewer is always asked
HandleReplaceUrlAlwaysAsks(r) ==
  LET r1 == [r EXCEPT !.paramReads = @ \cup {"replaceUrl"}] IN
  IF ~Truthy(env.replaceUrl)
  THEN [r1 EXCEPT !.rstep = "fulfilled"]
  ELSE [r1 EXCEPT !.msgs = Append(@, "getReplaceUrl"),
                  !.rstep = "awaitMsg"]

HandleReplaceUrl(r) ==
  LET r1 == [r EXCEPT !.paramReads = @ \cup {"replaceUrl"}] IN
  IF ~Truthy(env.replaceUrl)
  THEN [r1 EXCEPT !.rstep = "fulfilled"]
  ELSE IF ~env.capReplaceUrl
  THEN [r1 EXCEPT !.replaceUrlCalls = Append(@, OrElse(env.replaceUrl, JsNull)),
                  !.rstep = "fulfilled"]
  ELSE [r1 EXCEPT !.msgs = Append(@, "getReplaceUrl"),
                  !.rstep = "awaitMsg"]

\* the click parameter passes both checks of handleClickUrl
ClickAccepted == Len(env.click) # 0 /\ IndexOfIsZero(env.click, HttpsPrefix)

\* variant: the request is issued without waiting for whenFirstVisible
HandleClickUrlNoWait(r) ==
  LET r1 == [r EXCEPT !.paramReads = @ \cup {"click"}] IN
  IF Len(env.click) = 0
  THEN [r1 EXCEPT !.cstep = "fulfilled"]
  ELSE IF ~IndexOfIsZero(env.click, HttpsPrefix)
  THEN [r1 EXCEPT !.warns = @ \cup {"click"}, !.cstep = "fulfilled"]
  ELSE [r1 EXCEPT !.hashCleared = Truthy(hash),
                  !.fetches = Append(@, env.click), !.cstep = "awaitFetch"]

HandleClickUrl(r) ==
  LET r1 == [r EXCEPT !.paramReads = @ \cup {"click"}] IN
  IF Len(env.click) = 0
  THEN [r1 EXCEPT !.cstep = "fulfilled"]
  ELSE IF ~IndexOfIsZero(env.click, HttpsPrefix)
  THEN [r1 EXCEPT !.warns = @ \cup {"click"}, !.cstep = "fulfilled"]
  ELSE [r1 EXCEPT !.hashCleared = Truthy(hash), !.cstep = "awaitVisible"]

\* variant: the beacon is skipped when history.replaceState is missing
ApplyResponseChecksHistoryFirst(r, response) ==
  LET adLocation == response.location
      adTracking == response.tracking_url
      trackUrl == OrElse(adTracking, adLocation)
      r1 == [r EXCEPT !.applied = Append(@, response)]
      r2 == IF Truthy(trackUrl) /\ ~IsProxyOrigin(trackUrl) /\ env.replaceState
            THEN [r1 EXCEPT !.beacons = Append(@, trackUrl)] ELSE r1
  IN IF Truthy(adLocation) /\ env.replaceState
     THEN [r2 EXCEPT !.replaceStates = Append(@, adLocation)]
     ELSE r2

\* applyResponse(win, response)
ApplyResponse(r, response) ==
  LET adLocation == response.location
      adTracking == response.tracking_url
      trackUrl == OrElse(adTracking, adLocation)
      r1 == [r EXCEPT !.applied = Append(@, response)]
      r2 == IF Truthy(trackUrl) /\ ~IsProxyOrigin(trackUrl)
            THEN [r1 EXCEPT !.beacons = Append(@, trackUrl)] ELSE r1
  IN IF Truthy(adLocation) /\ env.replaceState
     THEN [r2 EXCEPT !.replaceStates = Append(@, adLocation)]
     ELSE r2

(***************************************************************************)
(* URLs: a URL is its part before the query and the set of its query       *)
(* parameters (url.js parseUrl, parseQueryString, addParamsToUrl).         *)
(***************************************************************************)
\* win.location.href when the document is loaded
CurrentHref == [path |-> "https://cdn.ampproject.org/c/s/pub.example/doc",
                query |-> {<<"amp", "1">>}]

\* parseUrl(url).search
ParseUrlSearch(u) ==
  IF u = AdLocation THEN "?a=1"
  ELSE IF u = ProxyLoc THEN "?b=2"
  ELSE ""

\* parseQueryString(search)
ParseQueryString(search) ==
  IF search = "?a=1" THEN {<<"a", "1">>}
  ELSE IF search = "?b=2" THEN {<<"b", "2">>}
  ELSE {}

\* addParamsToUrl(href, params)
AddParamsToUrl(href, params) == [href EXCEPT !.query = @ \cup params]

\* variant: the ad location is pushed as a new entry
ReplaceStatePushes(h, response) ==
  IF Truthy(response.location) /\ env.replaceState
  THEN [depth |-> h.depth + 1,
        href |-> AddParamsToUrl(h.href, ParseQueryString(ParseUrlSearch(response.location)))]
  ELSE h

\* applyResponse, lines 212-223: what it does to win.history
ReplaceState(h, response) ==
  IF Truthy(response.location) /\ env.replaceState
  THEN [h EXCEPT !.href =
          AddParamsToUrl(@, ParseQueryString(ParseUrlSearch(response.location)))]
  ELSE h

(***************************************************************************)
(* Initial state: nothing called yet, any viewer environment.              *)
(***************************************************************************)
Init ==
  /\ trackImpressionPromise = NullHandle
  /\ sess = [s \in Sessions |-> IdleSession]
  /\ nSessions = 0
  /\ env \in Envs
  /\ hash \in {"", "#frag"}
  /\ history = [depth |-> 1, href |-> CurrentHref]
  /\ visible = FALSE
  /\ lastCall = "none"

(***************************************************************************)
(* The exported API.                                                       *)
(***************************************************************************)
\* variant: the handle is returned unchecked
DevCheckNone(h) == h

\* dev().assert(trackImpressionPromise)
DevCheck(h) == IF h = NullHandle THEN AssertionError ELSE h

\* getTrackImpressionPromise(): a read of the handle, no state is written
GetTrackImpressionPromise == DevCheck(trackImpressionPromise)

ResetTrackImpressionPromiseForTesting ==
  /\ trackImpressionPromise' = NullHandle
  /\ lastCall' = "resetTrackImpressionPromiseForTesting"
  /\ UNCHANGED <<sess, nSessions, env, history, hash, visible>>

\* variant: the handle is cleared instead of set to a resolved promise
DoNotTrackImpressionClears ==
  /\ trackImpressionPromise' = NullHandle
  /\ lastCall' = "doNotTrackImpression"
  /\ UNCHANGED <<sess, nSessions, env, history, hash, visible>>

DoNotTrackImpression ==
  /\ trackImpressionPromise' = DntHandle
  /\ lastCall' = "doNotTrackImpression"
  /\ UNCHANGED <<sess, nSessions, env, history, hash, visible>>

\* variant: the inner promise is stored without the timeout race
NewSessionNoTimer ==
  [IdleSession EXCEPT !.promise = "pending", !.timer = "none",
                      !.race = "pending", !.track = "pending",
                      !.tv = "pending", !.tr = "pending"]

\* the session a call of maybeTrackImpression creates (lines 54-67)
NewSession ==
  [IdleSession EXCEPT !.promise = "pending", !.timer = "armed",
                      !.delay = TIMEOUT_VALUE,
                      !.race = "pending", !.track = "pending",
                      !.tv = "pending", !.tr = "pending"]

\* variant: a handle that is already set is kept
MaybeTrackImpressionKeepsFirst ==
  /\ nSessions + 1 \in DOMAIN sess
  /\ nSessions' = nSessions + 1
  /\ sess' = [sess EXCEPT ![nSessions + 1] = NewSession]
  /\ trackImpressionPromise' =
       IF trackImpressionPromise = NullHandle
       THEN SessionHandle(nSessions + 1) ELSE trackImpressionPromise
  /\ lastCall' = "maybeTrackImpression"
  /\ UNCHANGED <<env, history, hash, visible>>

\* variant: the handle is not assigned before the function returns
MaybeTrackImpressionLateHandle ==
  /\ nSessions + 1 \in DOMAIN sess
  /\ nSessions' = nSessions + 1
  /\ sess' = [sess EXCEPT ![nSessions + 1] = NewSession]
  /\ lastCall' = "maybeTrackImpression"
  /\ UNCHANGED <<trackImpressionPromise, env, history, hash, visible>>

MaybeTrackImpression ==
  /\ nSessions + 1 \in DOMAIN sess
  /\ nSessions' = nSessions + 1
  /\ sess' = [sess EXCEPT ![nSessions + 1] = NewSession]
  /\ trackImpressionPromise' = SessionHandle(nSessions + 1)
  /\ lastCall' = "maybeTrackImpression"
  /\ UNCHANGED <<env, history, hash, visible>>

(***************************************************************************)
(* Asynchronous steps of session s.                                        *)
(***************************************************************************)
TrustOutcomes == {"true", "false", "rejected"}

IsTrustedViewerSettles(s, v) ==
  /\ sess[s].tv = "pending"
  /\ sess' = [sess EXCEPT ![s].tv = v]
  /\ UNCHANGED <<trackImpressionPromise, nSessions, env, history, hash, visible, lastCall>>

IsTrustedReferrerSettles(s, v) ==
  /\ sess[s].tr = "pending"
  /\ sess' = [sess EXCEPT ![s].tr = v]
  /\ UNCHANGED <<trackImpressionPromise, nSessions, env, history, hash, visible, lastCall>>

\* variant: the experiment flag is not consulted
UntrustedNoExperiment(r) == r.tv # "true" /\ r.tr # "true"

\* !isTrustedViewer && !isTrustedReferrer && !isExperimentOn(win, 'alp')
Untrusted(r) == r.tv # "true" /\ r.tr # "true" /\ ~env.alp

\* variant: a rejected trust query counts as false
TrustContinuationAfterReject(s) ==
  LET r == sess[s]
      r0 == [r EXCEPT !.trustDone = TRUE] IN
  /\ r.tv \in {"true", "false", "rejected"}
  /\ r.tr \in {"true", "false", "rejected"}
  /\ ~r.trustDone
  /\ IF Untrusted(r)
     THEN /\ sess' = [sess EXCEPT ![s] = ResolveImpression(r0, "trust")]
          /\ hash' = hash
     ELSE /\ sess' = [sess EXCEPT ![s] =
                 Join(HandleClickUrl(HandleReplaceUrl([r0 EXCEPT !.join = "waiting"])))]
          /\ hash' = IF ClickAccepted THEN "" ELSE hash
  /\ UNCHANGED <<trackImpressionPromise, nSessions, env, history, visible, lastCall>>

\* the .then(results => ...) of the trust queries (lines 71-87)
TrustContinuation(s) ==
  LET r == sess[s]
      r0 == [r EXCEPT !.trustDone = TRUE] IN
  /\ r.tv \in {"true", "false"}
  /\ r.tr \in {"true", "false"}
  /\ ~r.trustDone
  /\ IF Untrusted(r)
     THEN /\ sess' = [sess EXCEPT ![s] = ResolveImpression(r0, "trust")]
          /\ hash' = hash
     ELSE /\ sess' = [sess EXCEPT ![s] =
                 Join(HandleClickUrl(HandleReplaceUrl([r0 EXCEPT !.join = "waiting"])))]
          /\ hash' = IF ClickAccepted THEN "" ELSE hash
  /\ UNCHANGED <<trackImpressionPromise, nSessions, env, history, visible, lastCall>>

\* variant: no rejection handler, a messaging error rejects the step
OnReplaceUrlResponseNoErrorHandler(r0, response) ==
  LET r == [r0 EXCEPT !.rresp = response] IN
  IF response = MsgReject
  THEN [r EXCEPT !.rstep = "rejected"]
  ELSE IF InvalidResponse(response)
  THEN [r EXCEPT !.warns = @ \cup {"replaceUrlInvalid"}, !.rstep = "fulfilled"]
  ELSE [r EXCEPT !.replaceUrlCalls = Append(@, OrElse(response.replaceUrl, JsNull)),
                 !.rstep = "fulfilled"]

\* variant: the init parameter is applied instead of the response's field
OnReplaceUrlResponseUsesParam(r0, response) ==
  LET r == [r0 EXCEPT !.rresp = response] IN
  IF response = MsgReject
  THEN [r EXCEPT !.warns = @ \cup {"replaceUrlError"}, !.rstep = "fulfilled"]
  ELSE IF InvalidResponse(response)
  THEN [r EXCEPT !.warns = @ \cup {"replaceUrlInvalid"}, !.rstep = "fulfilled"]
  ELSE [r EXCEPT !.replaceUrlCalls = Append(@, OrElse(env.replaceUrl, JsNull)),
                 !.rstep = "fulfilled"]

\* the two handlers of sendMessageAwaitResponse(...).then (lines 127-135)
OnReplaceUrlResponse(r0, response) ==
  LET r == [r0 EXCEPT !.rresp = response] IN
  IF response = MsgReject
  THEN [r EXCEPT !.warns = @ \cup {"replaceUrlError"}, !.rstep = "fulfilled"]
  ELSE IF InvalidResponse(response)
  THEN [r EXCEPT !.warns = @ \cup {"replaceUrlInvalid"}, !.rstep = "fulfilled"]
  ELSE [r EXCEPT !.replaceUrlCalls = Append(@, OrElse(response.replaceUrl, JsNull)),
                 !.rstep = "fulfilled"]

GetReplaceUrlSettles(s, response) ==
  /\ sess[s].rstep = "awaitMsg"
  /\ sess' = [sess EXCEPT ![s] = Join(OnReplaceUrlResponse(sess[s], response))]
  /\ UNCHANGED <<trackImpressionPromise, nSessions, env, history, hash, visible, lastCall>>

\* the viewer reports the document visible for the first time
FirstVisible ==
  /\ ~visible
  /\ visible' = TRUE
  /\ UNCHANGED <<trackImpressionPromise, sess, nSessions, env, history, hash, lastCall>>

\* whenFirstVisible().then(() => invoke(win, clickUrl))  (lines 169-170, 182-191)
Invoke(r) == [r EXCEPT !.fetches = Append(@, env.click), !.cstep = "awaitFetch"]

WhenFirstVisibleContinuation(s) ==
  /\ visible
  /\ sess[s].cstep = "awaitVisible"
  /\ sess' = [sess EXCEPT ![s] = Invoke(sess[s])]
  /\ UNCHANGED <<trackImpressionPromise, nSessions, env, history, hash, visible, lastCall>>

\* variant: a failed request is issued once more
OnFetchSettledRetries(r, response) ==
  IF response = FetchFailure
  THEN IF Len(r.fetches) < 2
       THEN [r EXCEPT !.fetches = Append(@, env.click)]
       ELSE [r EXCEPT !.cstep = "rejected"]
  ELSE [ApplyResponse(r, response) EXCEPT !.cstep = "fulfilled"]

\* fetchJson(...).then(res => res.json()).then(response => applyResponse(...))
OnFetchSettled(r, response) ==
  IF response = FetchFailure
  THEN [r EXCEPT !.cstep = "rejected"]
  ELSE [ApplyResponse(r, response) EXCEPT !.cstep = "fulfilled"]

FetchSettles(s, response) ==
  /\ sess[s].cstep = "awaitFetch"
  /\ sess' = [sess EXCEPT ![s] = Join(OnFetchSettled(sess[s], response))]
  /\ history' = IF response = FetchFailure THEN history
                ELSE ReplaceState(history, response)
  /\ UNCHANGED <<trackImpressionPromise, nSessions, env, hash, visible, lastCall>>

\* the TIMEOUT_VALUE timer of timeoutPromise fires before the inner promise settled
TimerFires(s) ==
  /\ sess[s].timer = "armed"
  /\ sess[s].race = "pending"
  /\ sess' = [sess EXCEPT ![s] = SettleSession([sess[s] EXCEPT !.timer = "fired"], "timeout")]
  /\ UNCHANGED <<trackImpressionPromise, nSessions, env, history, hash, visible, lastCall>>

Next ==
  \/ ResetTrackImpressionPromiseForTesting
  \/ DoNotTrackImpression
  \/ MaybeTrackImpression
  \/ FirstVisible
  \/ \E s \in DOMAIN sess :
       \/ \E v \in TrustOutcomes : IsTrustedViewerSettles(s, v)
       \/ \E v \in TrustOutcomes : IsTrustedReferrerSettles(s, v)
       \/ TrustContinuation(s)
       \/ \E m \in MsgResponses \cup {MsgReject} : GetReplaceUrlSettles(s, m)
       \/ WhenFirstVisibleContinuation(s)
       \/ \E f \in FetchResponses \cup {FetchFailure} : FetchSettles(s, f)
       \/ TimerFires(s)

Spec == Init /\ [][Next]_vars

(***************************************************************************)
(* Overlapping sessions: maybeTrackImpression is called again while the    *)
(* earlier session is still running.  The viewer hands over either a       *)
(* replaceUrl parameter (with the capability) or an https:// click         *)
(* parameter, as the comment before handleReplaceUrl assumes.               *)
(***************************************************************************)
OverlapEnvs ==
  { [replaceUrl |-> ParamX, capReplaceUrl |-> TRUE, click |-> <<>>,
     alp |-> FALSE, replaceState |-> TRUE],
    [replaceUrl |-> "", capReplaceUrl |-> FALSE, click |-> ClickHttps,
     alp |-> FALSE, replaceState |-> TRUE] }

InitOverlap ==
  /\ trackImpressionPromise = NullHandle
  /\ sess = [s \in 1..MaxOverlap |-> IdleSession]
  /\ nSessions = 0
  /\ env \in OverlapEnvs
  /\ hash = "#frag"
  /\ history = [depth |-> 1, href |-> CurrentHref]
  /\ visible = FALSE
  /\ lastCall = "none"

SpecOverlap == InitOverlap /\ [][Next]_vars

(***************************************************************************)
(* Fairness: the timer service fires an armed timer.                       *)
(***************************************************************************)
FairSpec == Spec /\ \A s \in 1..MaxSessions : WF_vars(TimerFires(s))

(***************************************************************************)
(* Properties.                                                             *)
(***************************************************************************)
\* state of the promise behind a handle
HandleState(h) ==
  IF h.kind = "null" THEN "unset"
  ELSE IF h.kind = "resolved" THEN "fulfilled"
  ELSE sess[h.id].track

Started(s) == s <= nSessions
Settled(st) == st \in {"fulfilled", "rejected"}
Trusted(s) == sess[s].tv = "true" \/ sess[s].tr = "true" \/ env.alp

\* what a session has done to the outside world
Effects(r) == <<r.replaceUrlCalls, r.msgs, r.fetches, r.applied, r.beacons,
                r.replaceStates, r.hashCleared>>

\* C1: the session promise is never rejected: the promise behind the handle,
\* and the promise of every session started, is pending or fulfilled, whatever
\* failed (trust query, viewer message, fetch) and whether or not the timer fired.
C1_NeverRejected ==
  /\ HandleState(trackImpressionPromise) \in {"unset", "pending", "fulfilled"}
  /\ \A s \in DOMAIN sess : Started(s) => sess[s].track \in {"pending", "fulfilled"}

\* a timed-out session whose fetch failed, still behind the handle
C1_Witness ==
  \E s \in DOMAIN sess :
    /\ trackImpressionPromise = SessionHandle(s)
    /\ sess[s].race = "rejected"
    /\ sess[s].cstep = "rejected"
    /\ sess[s].track = "fulfilled"

\* C2: with a fair timer every started session is eventually fulfilled, also
\* when a trust query, the viewer response, visibility or the fetch never settles.
C2_EventuallyFulfilled ==
  \A s \in 1..MaxSessions : Started(s) ~> (sess[s].track = "fulfilled")

\* fulfilled by the timeout while a trust query is still pending
C2_Witness ==
  \E s \in DOMAIN sess :
    /\ sess[s].tv = "pending"
    /\ sess[s].resolvedBy = "timeout"
    /\ sess[s].track = "fulfilled"
    /\ "timeout" \in sess[s].warns

\* C3: once the trust continuation ran: with both queries false and the
\* experiment off the session is fulfilled (by the continuation unless the timer
\* fired before it) and no later step ran; with one of the three signals true
\* both steps were started.
C3_TrustGate ==
  \A s \in DOMAIN sess : sess[s].trustDone =>
    IF sess[s].tv = "false" /\ sess[s].tr = "false" /\ ~env.alp
    THEN /\ sess[s].track = "fulfilled"
         /\ sess[s].resolvedBy \in {"trust", "timeout"}
         /\ sess[s].promise = "fulfilled"
         /\ sess[s].paramReads = {}
         /\ sess[s].rstep = "idle" /\ sess[s].cstep = "idle"
         /\ Effects(sess[s]) = Effects(IdleSession)
    ELSE /\ sess[s].paramReads = {"replaceUrl", "click"}
         /\ sess[s].rstep # "idle"
         /\ sess[s].cstep # "idle"

\* untrusted and resolved by the continuation, with parameters waiting unused
C3_Witness ==
  \E s \in DOMAIN sess :
    /\ sess[s].trustDone
    /\ sess[s].tv = "false" /\ sess[s].tr = "false" /\ ~env.alp
    /\ sess[s].resolvedBy = "trust"
    /\ env.replaceUrl = ParamX /\ env.click = ClickHttps /\ hash # ""

\* C4: in a trusted session, once both steps have settled (fulfilled or
\* rejected) the session is fulfilled, without the timer having to fire.
C4_JoinResolvesAlways ==
  \A s \in DOMAIN sess :
    (sess[s].trustDone /\ Trusted(s) /\ Settled(sess[s].rstep) /\ Settled(sess[s].cstep))
      => sess[s].track = "fulfilled"

\* C5 as stated: after the timeout resolved the session nothing more happens:
\* neither the session state nor its effects on the outside world change.
C5_NoEffectAfterTimeout ==
  [][\A s \in DOMAIN sess : sess[s].resolvedBy = "timeout" =>
        /\ sess'[s].track = sess[s].track
        /\ Effects(sess'[s]) = Effects(sess[s])]_vars

\* C5 amended: after the timeout resolved the session, the session promise
\* stays fulfilled whatever settles later (a late resolveImpression is ignored).
C5_SessionStaysResolved ==
  [][\A s \in DOMAIN sess : sess[s].resolvedBy = "timeout" =>
        /\ sess'[s].track = "fulfilled"
        /\ sess'[s].race = "rejected"
        /\ sess'[s].resolvedBy = "timeout"]_vars

\* the join called resolveImpression after the timeout had resolved the session
C5_Witness ==
  \E s \in DOMAIN sess :
    /\ sess[s].resolvedBy = "timeout"
    /\ sess[s].join = "resolved"
    /\ sess[s].track = "fulfilled"
    /\ sess[s].replaceUrlCalls # <<>>

\* C6: getTrackImpressionPromise fails with an assertion error exactly when the
\* handle is unset, which is the case before any call and after a reset, and
\* returns the handle after maybeTrackImpression or doNotTrackImpression.
C6_GetAssertsWhenUnset ==
  /\ lastCall \in {"none", "resetTrackImpressionPromiseForTesting"}
       => /\ trackImpressionPromise = NullHandle
          /\ GetTrackImpressionPromise = AssertionError
  /\ lastCall \in {"maybeTrackImpression", "doNotTrackImpression"}
       => /\ trackImpressionPromise # NullHandle
          /\ GetTrackImpressionPromise = trackImpressionPromise
          /\ GetTrackImpressionPromise # AssertionError

\* a reset after a session was started: the accessor fails again
C6_Witness ==
  /\ lastCall = "resetTrackImpressionPromiseForTesting"
  /\ nSessions >= 1
  /\ GetTrackImpressionPromise = AssertionError

\* a step of the asynchronous part of some session, or of the viewer
AsyncStep == nSessions' = nSessions /\ (sess' # sess \/ visible' # visible)

\* C7: the handle is the new session's promise as soon as maybeTrackImpression
\* has returned, so the accessor succeeds from then on; the handle is written
\* by that call only, never by an asynchronous continuation.
C7_HandleSetSynchronously ==
  [][/\ nSessions' # nSessions =>
          /\ trackImpressionPromise' = SessionHandle(nSessions')
          /\ DevCheck(trackImpressionPromise') # AssertionError
     /\ AsyncStep => trackImpressionPromise' = trackImpressionPromise
     /\ \A s \in DOMAIN sess :
          (trackImpressionPromise' = SessionHandle(s)
             /\ trackImpressionPromise # SessionHandle(s))
            => (nSessions = s - 1 /\ nSessions' = s)]_vars

\* the handle is set while neither trust query has settled
C7_Witness ==
  \E s \in DOMAIN sess :
    /\ lastCall = "maybeTrackImpression"
    /\ trackImpressionPromise = SessionHandle(s)
    /\ sess[s].tv = "pending" /\ sess[s].tr = "pending"
    /\ GetTrackImpressionPromise = SessionHandle(s)

\* C8: after doNotTrackImpression the handle is an already fulfilled promise,
\* and the call changes nothing but the handle: no session, timer, viewer,
\* location or history state.
C8_DoNotTrackResolvesOnly ==
  [][lastCall' = "doNotTrackImpression" =>
       /\ GetTrackImpressionPromise' = DntHandle
       /\ HandleState(trackImpressionPromise)' = "fulfilled"
       /\ lastCall # "doNotTrackImpression"
            => UNCHANGED <<sess, nSessions, env, history, hash, visible>>]_vars

\* doNotTrackImpression called while a session is still pending
C8_Witness ==
  /\ lastCall = "doNotTrackImpression"
  /\ trackImpressionPromise = DntHandle
  /\ \E s \in DOMAIN sess : sess[s].track = "pending" /\ sess[s].timer = "armed"

\* C9: in a trusted session, with the replaceUrl parameter and without the
\* capability, viewer.replaceUrl has been called exactly once with the
\* parameter value by the time the continuation that starts the step returns,
\* and no message is ever sent; without the parameter neither happens.
C9_LegacyReplaceUrl ==
  \A s \in DOMAIN sess : (sess[s].trustDone /\ Trusted(s)) =>
    /\ (env.replaceUrl # "" /\ ~env.capReplaceUrl)
         => /\ sess[s].replaceUrlCalls = <<env.replaceUrl>>
            /\ sess[s].msgs = <<>>
            /\ sess[s].rstep = "fulfilled"
    /\ env.replaceUrl = ""
         => /\ sess[s].replaceUrlCalls = <<>>
            /\ sess[s].msgs = <<>>

\* the legacy path taken
C9_Witness ==
  \E s \in DOMAIN sess :
    /\ sess[s].trustDone /\ Trusted(s)
    /\ env.replaceUrl = ParamX /\ ~env.capReplaceUrl
    /\ sess[s].replaceUrlCalls = <<ParamX>>

\* C10: in a trusted session, with the parameter and the capability, exactly
\* one getReplaceUrl message is sent; after an object response viewer.replaceUrl
\* has been called exactly once, with the response's replaceUrl field, or null
\* when the field is missing or empty; the parameter value is never applied.
C10_AsyncReplaceUrl ==
  \A s \in DOMAIN sess :
    (sess[s].trustDone /\ Trusted(s) /\ env.replaceUrl # "" /\ env.capReplaceUrl) =>
      /\ sess[s].msgs = <<"getReplaceUrl">>
      /\ sess[s].rstep = "awaitMsg" => sess[s].replaceUrlCalls = <<>>
      /\ (sess[s].rstep # "awaitMsg" /\ sess[s].rresp.type = "object") =>
           sess[s].replaceUrlCalls =
             <<IF sess[s].rresp.replaceUrl \in {JsUndefined, ""}
               THEN JsNull ELSE sess[s].rresp.replaceUrl>>
      /\ \A i \in 1..Len(sess[s].replaceUrlCalls) :
           sess[s].replaceUrlCalls[i] # env.replaceUrl

\* the viewer answered with an object carrying a replaceUrl
C10_Witness ==
  \E s \in DOMAIN sess :
    /\ env.replaceUrl = ParamX /\ env.capReplaceUrl
    /\ sess[s].rresp = [type |-> "object", replaceUrl |-> RespY]
    /\ sess[s].replaceUrlCalls = <<RespY>>
    /\ sess[s].msgs = <<"getReplaceUrl">>

\* C11: when the getReplaceUrl request answers with something that is not an
\* object, or fails, viewer.replaceUrl is not called and the replace-URL step
\* is fulfilled; once the click-tracking step is fulfilled too, the join has
\* resolved the session (unless the timer fired before).
C11_BadReplaceUrlResponse ==
  \A s \in DOMAIN sess :
    sess[s].rresp.type \in {"undefined", "string", "reject"} =>
      /\ sess[s].replaceUrlCalls = <<>>
      /\ sess[s].rstep = "fulfilled"
      /\ sess[s].cstep = "fulfilled" =>
           /\ sess[s].join = "resolved"
           /\ sess[s].promise = "fulfilled"
           /\ sess[s].track = "fulfilled"
           /\ sess[s].resolvedBy \in {"join", "timeout"}

\* the viewer request failed and the join resolved the session
C11_Witness ==
  \E s \in DOMAIN sess :
    /\ sess[s].rresp = MsgReject
    /\ "replaceUrlError" \in sess[s].warns
    /\ sess[s].cstep = "fulfilled"
    /\ sess[s].resolvedBy = "join"

\* C12: in a trusted session whose click parameter is absent or does not
\* start with https://, no fetch is ever issued and the click-tracking step is
\* fulfilled by the continuation that starts it, visible or not; with the
\* replace-URL step fulfilled the join has resolved the session.  A warning is
\* logged exactly when the parameter is present.
C12_InvalidClick ==
  \A s \in DOMAIN sess :
    (sess[s].trustDone /\ Trusted(s) /\ env.click \in {<<>>, ClickHttp, ClickFtp, ClickEmbeds}) =>
      /\ sess[s].fetches = <<>>
      /\ sess[s].applied = <<>>
      /\ sess[s].cstep = "fulfilled"
      /\ ("click" \in sess[s].warns) <=> (env.click # <<>>)
      /\ sess[s].rstep = "fulfilled" =>
           /\ sess[s].join = "resolved"
           /\ sess[s].track = "fulfilled"

\* an ftp click URL: dropped with a warning while the document is not visible
C12_Witness ==
  \E s \in DOMAIN sess :
    /\ env.click = ClickFtp
    /\ ~visible
    /\ sess[s].cstep = "fulfilled"
    /\ "click" \in sess[s].warns
    /\ sess[s].resolvedBy = "join"

\* C13: the click-tracking step with an https:// click parameter is ordered:
\* the fragment is gone as soon as the step has started, the fetch is issued
\* only when the document has become visible, and the response is applied
\* only when the fetch has been issued and has resolved.
C13_ClickStepOrder ==
  \A s \in DOMAIN sess :
    /\ (sess[s].trustDone /\ Trusted(s) /\ env.click = ClickHttps) =>
         /\ hash = ""
         /\ sess[s].cstep \in {"awaitVisible", "awaitFetch", "fulfilled", "rejected"}
    /\ sess[s].cstep = "awaitVisible" => sess[s].fetches = <<>>
    /\ sess[s].fetches # <<>> => (visible /\ hash = "")
    /\ sess[s].cstep \in {"awaitVisible", "awaitFetch", "rejected"} =>
         /\ sess[s].applied = <<>>
         /\ sess[s].beacons = <<>>
         /\ sess[s].replaceStates = <<>>
    /\ sess[s].applied # <<>> =>
         /\ sess[s].fetches = <<ClickHttps>>
         /\ sess[s].cstep = "fulfilled"

\* the fragment was cleared, the fetch waits for the document to become visible
C13_Witness ==
  \E s \in DOMAIN sess :
    /\ sess[s].hashCleared
    /\ hash = ""
    /\ ~visible
    /\ sess[s].cstep = "awaitVisible"
    /\ sess[s].fetches = <<>>

\* C14: the replace-URL step does not wait for visibility: as soon as a
\* trusted session with a replaceUrl parameter has started its steps,
\* viewer.replaceUrl was called (no capability) or getReplaceUrl was sent
\* (capability), visible or not; with an https:// click parameter the join
\* resolves the session only after visibility, the fetch and its response.
C14_ReplaceUrlDoesNotWait ==
  \A s \in DOMAIN sess :
    (sess[s].trustDone /\ Trusted(s)) =>
      /\ env.replaceUrl = ParamX =>
           IF env.capReplaceUrl
           THEN Len(sess[s].msgs) = 1
           ELSE Len(sess[s].replaceUrlCalls) = 1
      /\ (env.click = ClickHttps /\ sess[s].join = "resolved") =>
           /\ visible
           /\ Len(sess[s].fetches) = 1
           /\ Len(sess[s].applied) = 1
      /\ (env.click = ClickHttps /\ sess[s].resolvedBy = "join") =>
           sess[s].join = "resolved"

\* the URL was replaced while the click-tracking step still waits for visibility
C14_Witness ==
  \E s \in DOMAIN sess :
    /\ ~visible
    /\ sess[s].replaceUrlCalls = <<ParamX>>
    /\ sess[s].cstep = "awaitVisible"
    /\ sess[s].track = "pending"

\* the beacon a response calls for: tracking_url, else location, unless it is
\* missing or a proxy origin
BeaconsFor(response) ==
  LET t == IF response.tracking_url # JsUndefined
           THEN response.tracking_url ELSE response.location
  IN IF t \in {AdLocation, TrackingUrl} THEN <<t>> ELSE <<>>

\* C15: a beacon is loaded exactly when a response is applied whose trackUrl
\* (tracking_url, else location) is present and not a proxy origin, its target
\* is that trackUrl, and support for history.replaceState plays no part.
C15_Beacon ==
  \A s \in DOMAIN sess :
    sess[s].beacons =
      IF sess[s].applied = <<>> THEN <<>> ELSE BeaconsFor(sess[s].applied[1])

\* tracking_url wins over location, without history.replaceState
C15_Witness ==
  \E s \in DOMAIN sess :
    /\ ~env.replaceState
    /\ sess[s].applied = <<[location |-> AdLocation, tracking_url |-> TrackingUrl]>>
    /\ sess[s].beacons = <<TrackingUrl>>

\* the locations of the responses applied so far that rewrite the history
Rewrites ==
  {sess[s].applied[1].location : s \in {x \in DOMAIN sess :
       /\ sess[x].applied # <<>>
       /\ sess[x].applied[1].location \in {AdLocation, ProxyLoc}
       /\ env.replaceState}}

\* C16: history.replaceState is called exactly when a response with a location
\* is applied and replaceState is supported; the current URL is then the URL
\* of the page with the query parameters of the location added; no entry is
\* ever pushed; otherwise history is untouched.
C16_HistoryReplaced ==
  /\ history.depth = 1
  /\ history.href.path = CurrentHref.path
  /\ history.href.query =
       CurrentHref.query
         \cup (IF AdLocation \in Rewrites THEN {<<"a", "1">>} ELSE {})
         \cup (IF ProxyLoc \in Rewrites THEN {<<"b", "2">>} ELSE {})
  /\ \A s \in DOMAIN sess :
       sess[s].replaceStates =
         IF /\ sess[s].applied # <<>>
            /\ sess[s].applied[1].location # JsUndefined
            /\ env.replaceState
         THEN <<sess[s].applied[1].location>> ELSE <<>>

\* the page URL with the parameter of the ad location merged in
C16_Witness ==
  /\ history.depth = 1
  /\ history.href.query = {<<"amp", "1">>, <<"a", "1">>}
  /\ \E s \in DOMAIN sess : sess[s].replaceStates = <<AdLocation>>

\* a started session with unfinished work: trust check, viewer request,
\* visibility wait or fetch
Active(s) ==
  /\ Started(s)
  /\ \/ ~sess[s].trustDone /\ sess[s].tv # "rejected" /\ sess[s].tr # "rejected"
     \/ sess[s].rstep = "awaitMsg"
     \/ sess[s].cstep \in {"awaitVisible", "awaitFetch"}

ActiveSessions == {s \in DOMAIN sess : Active(s)}

\* C17 as stated: at most one session has unfinished work, and the handle of
\* a started session is replaced only by a reset or by doNotTrackImpression.
C17_AtMostOneActive ==
  [][/\ Cardinality(ActiveSessions') <= 1
     /\ (trackImpressionPromise.kind = "session"
           /\ trackImpressionPromise' # trackImpressionPromise)
          => lastCall' \in {"resetTrackImpressionPromiseForTesting",
                            "doNotTrackImpression"}]_vars

\* C17 amended: a session handle is always that of the session started last,
\* and the handle changes only by a reset (to unset), by doNotTrackImpression
\* (to a resolved promise) or by a maybeTrackImpression call (to the new
\* session); sessions started earlier are not stopped by any of these.
C17_HandleIsLatestSession ==
  [][/\ trackImpressionPromise'.kind = "session"
          => trackImpressionPromise'.id = nSessions'
     /\ trackImpressionPromise' # trackImpressionPromise =>
          \/ /\ lastCall' = "resetTrackImpressionPromiseForTesting"
             /\ trackImpressionPromise' = NullHandle
          \/ /\ lastCall' = "doNotTrackImpression"
             /\ trackImpressionPromise' = DntHandle
          \/ /\ lastCall' = "maybeTrackImpression"
             /\ nSessions' = nSessions + 1
             /\ trackImpressionPromise' = SessionHandle(nSessions')
     /\ (nSessions' # nSessions \/ lastCall' # lastCall) =>
          \A s \in DOMAIN sess : Started(s) => sess'[s] = sess[s]]_vars

\* two sessions with unfinished work, the handle is the second one's
C17_Witness ==
  /\ nSessions = 2
  /\ trackImpressionPromise = SessionHandle(2)
  /\ Cardinality(ActiveSessions) = 2
  /\ sess[1].track = "pending" /\ sess[2].track = "pending"

\* C18: no session performs both the viewer URL replacement and the rewrite
\* of the history with the ad location, so their order is never at issue.
C18_NeverBothReplacements ==
  \A s \in DOMAIN sess :
    ~(sess[s].replaceUrlCalls # <<>> /\ sess[s].replaceStates # <<>>)

\* C19: nothing is retried: a session sends at most one getReplaceUrl
\* message, issues at most one fetch, calls viewer.replaceUrl at most once and
\* applies at most one response, whatever failed.
C19_NoRetries ==
  \A s \in DOMAIN sess :
    /\ Len(sess[s].msgs) <= 1
    /\ Len(sess[s].fetches) <= 1
    /\ Len(sess[s].replaceUrlCalls) <= 1
    /\ Len(sess[s].applied) <= 1
    /\ Len(sess[s].beacons) <= 1
    /\ Len(sess[s].replaceStates) <= 1

\* the viewer request and the fetch both failed, each was made once
C19_Witness ==
  \E s \in DOMAIN sess :
    /\ sess[s].rresp = MsgReject
    /\ sess[s].cstep = "rejected"
    /\ Len(sess[s].msgs) = 1
    /\ Len(sess[s].fetches) = 1
    /\ sess[s].applied = <<>>

\* C20: while a trust query is rejected or unsettled the continuation has
\* not run: no parameter is read, no step is started, nothing is done to the
\* viewer, the location or the network, and if the session is fulfilled it
\* was the timer that fulfilled it.
C20_TrustNeverSettles ==
  \A s \in DOMAIN sess :
    (Started(s) /\ ( sess[s].tv \in {"pending", "rejected"}
                  \/ sess[s].tr \in {"pending", "rejected"})) =>
      /\ ~sess[s].trustDone
      /\ sess[s].paramReads = {}
      /\ sess[s].rstep = "idle" /\ sess[s].cstep = "idle" /\ sess[s].join = "idle"
      /\ Effects(sess[s]) = Effects(IdleSession)
      /\ sess[s].promise = "pending"
      /\ sess[s].track = "fulfilled" => sess[s].resolvedBy = "timeout"

\* a rejected trust query, parameters waiting, fulfilled by the timer
C20_Witness ==
  \E s \in DOMAIN sess :
    /\ sess[s].tv = "rejected" /\ sess[s].tr = "true"
    /\ env.replaceUrl = ParamX /\ env.click = ClickHttps
    /\ sess[s].track = "fulfilled"
    /\ sess[s].resolvedBy = "timeout"

TypeOK ==
  /\ trackImpressionPromise \in {NullHandle, DntHandle} \cup {SessionHandle(s) : s \in DOMAIN sess}
  /\ nSessions \in 0..Len(sess)
  /\ \A s \in DOMAIN sess : sess[s].track \in {"none", "pending", "fulfilled", "rejected"}

====
